---- MODULE Spec2Model ----
(***************************************************************************)
(* Memory Match Pro: the game-state machine of class MemoryMatchGame       *)
(* (src/unnamed/part_000, lines 8-566).                                    *)
(*                                                                         *)
(* The state is the engine's fields, the browser's pending timers, the     *)
(* wall clock and the best-score entries of localStorage.  One action per  *)
(* event handler or timer callback.  Rendering, audio, particles and DOM   *)
(* updates change none of the engine's fields and are left out.            *)
(***************************************************************************)
EXTENDS Integers, Sequences, FiniteSets, TLC

VARIABLES
    gameState,      \* this.gameState: "menu" | "playing" | "completed"
    cards,          \* this.cards: sequence of card objects, cards[i].id = i - 1
    flippedCards,   \* this.flippedCards: sequence of references (ids) into this.cards
    matchedPairs,   \* this.matchedPairs
    score,          \* this.score
    moves,          \* this.moves
    level,          \* this.level
    startTime,      \* this.startTime (ms)
    gameTime,       \* this.gameTime (ms)
    difficulty,     \* this.difficulty: key of this.difficulties
    isPaused,       \* this.isPaused
    timerInterval,  \* TRUE iff this.timerInterval holds an interval handle
    intervals,      \* number of live setInterval timers created by startTimer
    timeouts,       \* pending setTimeout callbacks, in registration order
    bestScore,      \* localStorage items bestScore_<difficulty>: digits, <<>> when absent
    now,            \* Date.now(), in ms since the first game was started
    threw,          \* history: the step just taken ended in an uncaught error
    commands,       \* history: number of buttons and keys that may still be pressed
    failing,        \* environment: the collaborators whose calls may throw
    audio,          \* the AudioManager: masterVolume (percent), isMuted, and
                    \* the localStorage item memoryMatchAudioSettings
    emitter         \* an EventEmitter: the listeners of one event, and the
                    \* listeners the last emit has called

vars == <<gameState, cards, flippedCards, matchedPairs, score, moves, level,
          startTime, gameTime, difficulty, isPaused, timerInterval, intervals,
          timeouts, bestScore, now, threw, commands, failing, audio, emitter>>

\* The variables of the game engine.
engine == <<gameState, cards, flippedCards, matchedPairs, score, moves, level,
            startTime, gameTime, difficulty, isPaused, timerInterval, intervals,
            timeouts, bestScore, now, threw, commands, failing>>

\* The fields of the session that a card selection, a resolution or a pause may touch.
session == <<gameState, cards, flippedCards, matchedPairs, score, moves, level,
             isPaused>>

-----------------------------------------------------------------------------
(* Bounds of the model *)

\* Math.random() returns a multiple of 1/RandomGrain.
RandomGrain == 4
\* In a shuffle of a game the first FreeDraws calls of Math.random() return 0
\* or about 1/2, the later ones return 0.
FreeDraws == 0
\* In a shuffle of the board generator alone the first BoardDraws calls of
\* Math.random() return any multiple of 1/RandomGrain, the later ones 0.
BoardDraws == 3
\* The clock is observed every TicksPerStep periods of the 100 ms interval timer.
TicksPerStep == 10
\* The clock is advanced at most MaxSteps times.
MaxSteps == 4
\* In a game the player turns up at most MaxMisses pairs that do not match.
MaxMisses == 1
\* At most MaxCommands buttons and keys are pressed (not counted: clicks on
\* the canvas, and difficulty buttons pressed before the first game).
MaxCommands == 2

\* Games are started on these difficulties only.
PlayableDifficulties == {"easy"}
\* The level of a difficulty button that this.difficulties has no entry for
\* (dataset.level of an element without data-level).
UnknownLevel == "undefined"
\* The difficulty buttons pressed.
DifficultyChoices == {"easy", "medium"}

-----------------------------------------------------------------------------
(* Program constants *)

TickInterval == 100
MatchDelay == 800
CompleteDelay == 500
CanvasWidth == 780
CanvasHeight == 600
\* Lengths on the canvas are counted in 1/SubPixels of a pixel, so that the
\* divisions by cols (3, 4, 6) and rows (2, 3, 4) in createCards are exact.
SubPixels == 12

StepMs == TicksPerStep * TickInterval
MaxNow == MaxSteps * StepMs

difficulties ==
    [easy   |-> [rows |-> 2, cols |-> 3, timeBonus |-> 50],
     medium |-> [rows |-> 3, cols |-> 4, timeBonus |-> 100],
     hard   |-> [rows |-> 4, cols |-> 4, timeBonus |-> 150],
     expert |-> [rows |-> 4, cols |-> 6, timeBonus |-> 200]]

DifficultyNames == DOMAIN difficulties

\* The 32 distinct emoji of this.cardSymbols, by name.
cardSymbols ==
    <<"dart", "gamepad", "die", "circus", "palette", "masks", "note", "guitar",
      "rocket", "glowstar", "star", "gem", "fire", "bolt", "rainbow", "unicorn",
      "cat", "dog", "mouse", "hamster", "rabbit", "fox", "bear", "panda",
      "apple", "orange", "lemon", "banana", "grapes", "strawberry", "kiwi", "peach">>

Max(a, b) == IF a >= b THEN a ELSE b

-----------------------------------------------------------------------------
(* Board generation *)

\* Mutant: array[i] = array[j], without the exchange.
Swap_overwrite(array, i, j) ==
    [array EXCEPT ![i + 1] = array[j + 1]]

\* [array[i], array[j]] = [array[j], array[i]] with 0-based i, j
Swap(array, i, j) ==
    [array EXCEPT ![i + 1] = array[j + 1], ![j + 1] = array[i + 1]]

\* The values that n calls of Math.random() return, each a numerator from vals
\* over RandomGrain.
RandomDraws(n, vals) == [1..n -> vals]

\* Math.floor(Math.random() * (i + 1)) when Math.random() returns r / RandomGrain
RandomIndex(i, r) == (r * (i + 1)) \div RandomGrain

\* The loop of shuffleArray from index i down, at the draw-th call of
\* Math.random(); the calls after the last of rs return 0.
RECURSIVE shuffleFrom(_, _, _, _)
shuffleFrom(array, i, draw, rs) ==
    IF i <= 0 THEN array
    ELSE LET r == IF draw \in DOMAIN rs THEN rs[draw] ELSE 0
             j == RandomIndex(i, r)
         IN  shuffleFrom(Swap(array, i, j), i - 1, draw + 1, rs)

\* The array shuffleArray leaves behind when Math.random() returns rs.
shuffleArray(array, rs) == shuffleFrom(array, Len(array) - 1, 1, rs)

\* Mutant: the cards are 10 pixels wider and higher than their cell.
makeCards_wide(config, cardData, w, h) ==
    LET totalCards == config.rows * config.cols
        cardWidth  == ((w - 60) * SubPixels) \div config.cols
        cardHeight == ((h - 60) * SubPixels) \div config.rows
    IN  [n \in 1..totalCards |->
            LET i   == n - 1
                row == i \div config.cols
                col == i % config.cols
            IN  [id        |-> i,
                 symbol    |-> cardData[n],
                 x         |-> 30 * SubPixels + col * cardWidth,
                 y         |-> 30 * SubPixels + row * cardHeight,
                 width     |-> cardWidth + 10 * SubPixels,
                 height    |-> cardHeight + 10 * SubPixels,
                 isFlipped |-> FALSE,
                 isMatched |-> FALSE]]

\* The card objects built from shuffled cardData on a canvas of w x h pixels;
\* x, y, width and height are in sub-pixels.
makeCards(config, cardData, w, h) ==
    LET totalCards == config.rows * config.cols
        cardWidth  == ((w - 60) * SubPixels) \div config.cols
        cardHeight == ((h - 60) * SubPixels) \div config.rows
    IN  [n \in 1..totalCards |->
            LET i   == n - 1
                row == i \div config.cols
                col == i % config.cols
            IN  [id        |-> i,
                 symbol    |-> cardData[n],
                 x         |-> 30 * SubPixels + col * cardWidth,
                 y         |-> 30 * SubPixels + row * cardHeight,
                 width     |-> cardWidth - 10 * SubPixels,
                 height    |-> cardHeight - 10 * SubPixels,
                 isFlipped |-> FALSE,
                 isMatched |-> FALSE]]

\* The board createCards produces for a difficulty on a canvas of w x h
\* pixels when Math.random() returns rs.
createCards(diff, w, h, rs) ==
    LET config          == difficulties[diff]
        totalCards      == config.rows * config.cols
        pairsNeeded     == totalCards \div 2
        selectedSymbols == SubSeq(cardSymbols, 1, pairsNeeded)
        cardData        == selectedSymbols \o selectedSymbols
    IN  makeCards(config, shuffleArray(cardData, rs), w, h)

-----------------------------------------------------------------------------
(* Scoring *)

\* Mutant: the award has no floor.
calculateScore_noFloor(diff, time, mv) ==
    LET config       == difficulties[diff]
        baseScore    == 100
        timeBonus    == Max(0, config.timeBonus - (time \div 1000))
        movesPenalty == Max(0, mv * 5)
    IN  baseScore + timeBonus - movesPenalty

\* Mutant: the points of a match are floored at 0.
calculateScore_floorZero(diff, time, mv) ==
    LET config       == difficulties[diff]
        baseScore    == 100
        timeBonus    == Max(0, config.timeBonus - (time \div 1000))
        movesPenalty == Max(0, mv * 5)
    IN  Max(0, baseScore + timeBonus - movesPenalty)

\* Mutant: every match is worth the floor and no more.
calculateScore_floorOnly(diff, time, mv) == 10

\* Mutant: the time bonus is reduced by milliseconds instead of seconds.
calculateScore_ms(diff, time, mv) ==
    LET config       == difficulties[diff]
        baseScore    == 100
        timeBonus    == Max(0, config.timeBonus - time)
        movesPenalty == Max(0, mv * 5)
    IN  Max(10, baseScore + timeBonus - movesPenalty)

calculateScore(diff, time, mv) ==
    LET config       == difficulties[diff]
        baseScore    == 100
        timeBonus    == Max(0, config.timeBonus - (time \div 1000))
        movesPenalty == Max(0, mv * 5)
    IN  Max(10, baseScore + timeBonus - movesPenalty)

completionBonus(time) == Max(0, 1000 - (time \div 1000) * 10)

\* this.score.toString(): the decimal digits of a non-negative integer
RECURSIVE toString(_)
toString(n) ==
    IF n < 10 THEN <<n>> ELSE Append(toString(n \div 10), n % 10)

\* The number that a comparison makes of a string of decimal digits, and
\* of the 0 that stands in for a missing item (no digits).
RECURSIVE ToNumber(_)
ToNumber(str) ==
    IF str = <<>> THEN 0
    ELSE ToNumber(SubSeq(str, 1, Len(str) - 1)) * 10 + str[Len(str)]

\* Mutant: the score is stored whatever the stored best is.
saveBestScore_always(best, diff, sc) ==
    [best EXCEPT ![diff] = toString(sc)]

\* The items bestScore_<difficulty> of localStorage after saveBestScore;
\* an item is a string of digits, and there is none where best has no digits.
saveBestScore(best, diff, sc) ==
    LET currentBest == best[diff]
    IN  IF sc > ToNumber(currentBest)
        THEN [best EXCEPT ![diff] = toString(sc)]
        ELSE best

-----------------------------------------------------------------------------
(* Timers *)

\* The pending timeout that the browser runs next: earliest due time, and the
\* earliest registered among those.
NextTimeout(ts) ==
    CHOOSE k \in 1..Len(ts) :
        \A j \in 1..Len(ts) :
            \/ ts[k].due < ts[j].due
            \/ ts[k].due = ts[j].due /\ k <= j

RemoveAt(ts, k) == SubSeq(ts, 1, k - 1) \o SubSeq(ts, k + 1, Len(ts))

\* A callback fn is the next to run and its delay has elapsed.
Due(fn) ==
    /\ timeouts # <<>>
    /\ timeouts[NextTimeout(timeouts)].fn = fn
    /\ timeouts[NextTimeout(timeouts)].due <= now

\* A pending timeout is the callback and the time at which it is due.
\* Mutant: the callback is queued twice.
setTimeout_twice(ts, fn, delay) ==
    Append(Append(ts, [fn |-> fn, due |-> now + delay]),
           [fn |-> fn, due |-> now + delay])

\* Mutant: only the resolution is queued, the completion is not.
setTimeout_resolutionOnly(ts, fn, delay) ==
    IF fn = "checkMatch" THEN Append(ts, [fn |-> fn, due |-> now + delay]) ELSE ts

\* Mutant: the callback is never queued.
setTimeout_dropped(ts, fn, delay) == ts

setTimeout(ts, fn, delay) == Append(ts, [fn |-> fn, due |-> now + delay])

-----------------------------------------------------------------------------
(* Collaborators *)

\* window.audioManager, window.particleSystem and localStorage
Collaborators == {"audio", "particles", "storage"}

\* Whether a call of collaborator c throws: it may, if c is failing.
Throws(c) == IF c \in failing THEN BOOLEAN ELSE {FALSE}

-----------------------------------------------------------------------------
(* AudioManager: the settings and their item in localStorage *)

\* masterVolume in percent: the settings panel calls setVolume(volume / 100)
DefaultVolume == 70

\* new AudioManager(), before loadSettings; no item is stored yet
AudioConstructed == [masterVolume |-> DefaultVolume, isMuted |-> FALSE, item |-> <<>>]

\* JSON.stringify({volume, muted}): the texts of the two values
Stringify(volume, muted) == <<toString(volume), IF muted THEN "true" ELSE "false">>

\* JSON.parse of the item
Parse(item) == [volume |-> ToNumber(item[1]), muted |-> (item[2] = "true")]

saveSettings(a) == [a EXCEPT !.item = Stringify(a.masterVolume, a.isMuted)]

\* settings.volume || 0.7 and settings.muted || false
loadSettings(a) ==
    IF a.item = <<>>
    THEN a
    ELSE LET settings == Parse(a.item)
         IN  [a EXCEPT !.masterVolume = IF settings.volume # 0 THEN settings.volume
                                        ELSE DefaultVolume,
                       !.isMuted = settings.muted]

\* Math.max(0, Math.min(1, volume))
Clamp(volume) == IF volume < 0 THEN 0 ELSE IF volume > 100 THEN 100 ELSE volume

setVolume(a, volume) == saveSettings([a EXCEPT !.masterVolume = Clamp(volume)])

setMuted(a, muted) == saveSettings([a EXCEPT !.isMuted = muted])

toggleMute(a) == saveSettings([a EXCEPT !.isMuted = ~a.isMuted])

-----------------------------------------------------------------------------
(* EventEmitter: the listeners of one event *)

\* A listener is [id, once, offs]: once says that it is the wrapper made by
\* once(), which removes itself after the call; offs is the id of a listener
\* that its callback removes with off(), 0 if it removes none.
EmitterConstructed == [events |-> <<>>, called |-> <<>>]

\* this.events[event].indexOf(callback), counted from 1; 0 when not found
indexOf(list, id) ==
    IF \E k \in 1..Len(list) : list[k].id = id
    THEN CHOOSE k \in 1..Len(list) :
            list[k].id = id /\ \A j \in 1..(k - 1) : list[j].id # id
    ELSE 0

off(list, id) ==
    LET index == indexOf(list, id)
    IN  IF index > 0
        THEN [k \in 1..(Len(list) - 1) |-> IF k < index THEN list[k] ELSE list[k + 1]]
        ELSE list

on(list, listener) == Append(list, listener)

\* The list after listener has been called.
callListener(list, listener) ==
    IF listener.once THEN off(list, listener.id)
    ELSE IF listener.offs # 0 THEN off(list, listener.offs)
    ELSE list

\* forEach visits the indices below the length the array had at the start,
\* and reads the array as it is when each index is reached.
RECURSIVE forEach(_, _, _, _)
forEach(list, k, len, called) ==
    IF k > len THEN [events |-> list, called |-> called]
    ELSE IF k > Len(list) THEN forEach(list, k + 1, len, called)
    ELSE forEach(callListener(list, list[k]), k + 1, len, Append(called, list[k].id))

emit(list) == forEach(list, 1, Len(list), <<>>)

-----------------------------------------------------------------------------
(* The state after the constructor and init() have run: start screen shown *)

Constructed ==
    /\ gameState = "menu"
    /\ cards = <<>>
    /\ flippedCards = <<>>
    /\ matchedPairs = 0
    /\ score = 0
    /\ moves = 0
    /\ level = 1
    /\ startTime = 0
    /\ gameTime = 0
    /\ difficulty = "medium"
    /\ isPaused = FALSE
    /\ timerInterval = FALSE
    /\ intervals = 0
    /\ timeouts = <<>>
    /\ bestScore = [d \in DifficultyNames |-> <<>>]
    /\ now = 0
    /\ threw = FALSE

Init ==
    /\ Constructed
    /\ commands = MaxCommands
    /\ failing = {}
    /\ audio = AudioConstructed
    /\ emitter = EmitterConstructed

\* The same start, with one more button or key to press.
InitDeep ==
    /\ Constructed
    /\ commands = MaxCommands + 1
    /\ failing = {}
    /\ audio = AudioConstructed
    /\ emitter = EmitterConstructed

-----------------------------------------------------------------------------
(* Starting and leaving a game *)

\* A button or a key is pressed.
Pressed ==
    /\ commands > 0
    /\ commands' = commands - 1

\* createCards reads config.rows of an undefined config: TypeError
createCardsThrows(diff) == diff \notin DifficultyNames

initializeGame ==
    /\ score' = 0
    /\ moves' = 0
    /\ matchedPairs' = 0
    /\ flippedCards' = <<>>
    /\ startTime' = now
    /\ IF createCardsThrows(difficulty)
       THEN UNCHANGED cards
       ELSE \E rs \in RandomDraws(FreeDraws, {0, RandomGrain \div 2}) :
               cards' = createCards(difficulty, CanvasWidth, CanvasHeight, rs)

\* Mutant: the previous interval timer is not cleared.
startTimer_noClear ==
    /\ intervals' = intervals + 1
    /\ timerInterval' = TRUE

startTimer ==
    /\ intervals' = (IF timerInterval THEN intervals - 1 ELSE intervals) + 1
    /\ timerInterval' = TRUE

\* The error of createCards leaves startGame before startTimer is called.
startGame ==
    /\ difficulty \in PlayableDifficulties \cup {UnknownLevel}
    /\ gameState' = "playing"
    /\ initializeGame
    /\ IF createCardsThrows(difficulty)
       THEN /\ threw' = TRUE
            /\ UNCHANGED <<timerInterval, intervals>>
       ELSE /\ startTimer
            /\ threw' = FALSE
    /\ UNCHANGED <<gameTime, difficulty, isPaused, timeouts, bestScore, now, failing,
          audio, emitter>>

showStartScreen ==
    /\ gameState' = "menu"
    /\ threw' = FALSE
    /\ UNCHANGED <<cards, flippedCards, matchedPairs, score, moves, startTime,
                   gameTime, difficulty, isPaused, timerInterval, intervals,
                   timeouts, bestScore, now, failing, audio, emitter>>

\* start-game-btn
StartGame ==
    /\ Pressed
    /\ startGame
    /\ UNCHANGED level

\* restart-btn
RestartGame ==
    /\ Pressed
    /\ startGame
    /\ UNCHANGED level

\* play-again-btn
PlayAgain ==
    /\ Pressed
    /\ level' = level + 1
    /\ startGame

\* new-game-btn
NewGame ==
    /\ Pressed
    /\ level' = 1
    /\ showStartScreen

\* main-menu-btn
MainMenu ==
    /\ Pressed
    /\ showStartScreen
    /\ UNCHANGED level

\* a difficulty button
SelectDifficulty(lvl) ==
    /\ IF timerInterval THEN Pressed ELSE UNCHANGED commands
    /\ difficulty' = lvl
    /\ threw' = FALSE
    /\ UNCHANGED <<gameState, cards, flippedCards, matchedPairs, score, moves,
                   level, startTime, gameTime, isPaused, timerInterval, intervals,
                   timeouts, bestScore, now, failing, audio, emitter>>

-----------------------------------------------------------------------------
(* Pause *)

\* Mutant: togglePause does not look at gameState.
togglePause_anyState(state, paused) == ~paused

\* Mutant: togglePause pauses and never resumes.
togglePause_pauseOnly(state, paused) ==
    IF state # "playing" THEN paused ELSE TRUE

\* the value of this.isPaused after togglePause
togglePause(state, paused) ==
    IF state # "playing" THEN paused ELSE ~paused

\* pause-btn, resume-btn
TogglePause ==
    /\ Pressed
    /\ isPaused' = togglePause(gameState, isPaused)
    /\ threw' = FALSE
    /\ UNCHANGED <<gameState, cards, flippedCards, matchedPairs, score, moves,
                   level, startTime, gameTime, difficulty, timerInterval,
                   intervals, timeouts, bestScore, now, failing,
                         audio, emitter>>

\* keydown: Space toggles the pause while playing, Escape leaves a game being played
HandleKeyPress(code) ==
    /\ Pressed
    /\ threw' = FALSE
    /\ UNCHANGED <<cards, flippedCards, matchedPairs, score, moves, level,
                   startTime, gameTime, difficulty, timerInterval, intervals,
                   timeouts, bestScore, now, failing, audio, emitter>>
    /\ CASE code = "Space" ->
              /\ isPaused' = IF gameState = "playing"
                             THEN togglePause(gameState, isPaused) ELSE isPaused
              /\ UNCHANGED gameState
         [] code = "Escape" ->
              /\ gameState' = IF gameState = "playing" THEN "menu" ELSE gameState
              /\ UNCHANGED isPaused

-----------------------------------------------------------------------------
(* Selecting a card *)

\* Mutant: the pause flag is not looked at.
clickAccepted_ignorePause(state, paused) == ~(state # "playing")

\* handleCanvasClick lets the click through to handleCardClick
clickAccepted(state, paused) == ~(state # "playing" \/ paused)

\* Mutant: off by one.
bufferFull_offByOne(flipped) == Len(flipped) > 2

\* handleCardClick returns at once
bufferFull(flipped) == Len(flipped) >= 2

\* this.cards.find(...): index of the first face-down, unmatched card under
\* the pixel (x, y); 0 if none
\* Mutant: the card under the click is found whatever its flags are.
findCard_anyCard(cs, x, y) ==
    LET hits == { n \in 1..Len(cs) :
                     /\ x * SubPixels >= cs[n].x
                     /\ x * SubPixels <= cs[n].x + cs[n].width
                     /\ y * SubPixels >= cs[n].y
                     /\ y * SubPixels <= cs[n].y + cs[n].height }
    IN  IF hits = {} THEN 0 ELSE CHOOSE n \in hits : \A m \in hits : n <= m

findCard(cs, x, y) ==
    LET hits == { n \in 1..Len(cs) :
                     /\ x * SubPixels >= cs[n].x
                     /\ x * SubPixels <= cs[n].x + cs[n].width
                     /\ y * SubPixels >= cs[n].y
                     /\ y * SubPixels <= cs[n].y + cs[n].height
                     /\ ~cs[n].isFlipped /\ ~cs[n].isMatched }
    IN  IF hits = {} THEN 0 ELSE CHOOSE n \in hits : \A m \in hits : n <= m

\* card1.symbol === card2.symbol
matches(cs, a, b) == cs[a].symbol = cs[b].symbol

\* playSound('flip') comes after the push and before the test of the buffer
flipCard(n) ==
    /\ cards' = [cards EXCEPT ![n].isFlipped = TRUE]
    /\ flippedCards' = Append(flippedCards, cards[n].id)
    /\ Len(flippedCards) + 1 = 2 =>
          (matches(cards, flippedCards[1] + 1, n) \/ moves - matchedPairs < MaxMisses)
    /\ \E thrown \in Throws("audio") :
          /\ threw' = thrown
          /\ IF ~thrown /\ Len(flippedCards) + 1 = 2
             THEN /\ moves' = moves + 1
                  /\ timeouts' = setTimeout(timeouts, "checkMatch", MatchDelay)
             ELSE UNCHANGED <<moves, timeouts>>
    /\ UNCHANGED <<gameState, matchedPairs, score, level, isPaused>>

handleCardClick(x, y) ==
    IF bufferFull(flippedCards)
    THEN threw' = FALSE /\ UNCHANGED <<session, timeouts>>
    ELSE LET clickedCard == findCard(cards, x, y)
         IN  IF clickedCard # 0
             THEN flipCard(clickedCard)
             ELSE threw' = FALSE /\ UNCHANGED <<session, timeouts>>

\* click on the canvas at canvas coordinates (x, y)
HandleCanvasClick(x, y) ==
    /\ UNCHANGED <<startTime, gameTime, difficulty, timerInterval, intervals,
                   bestScore, now, commands, failing, audio, emitter>>
    /\ IF clickAccepted(gameState, isPaused)
       THEN handleCardClick(x, y)
       ELSE threw' = FALSE /\ UNCHANGED <<session, timeouts>>

\* The positions clicked: the centre of each cell of the 2 x 3 board, and
\* positions in the gutter between the first two columns.
ClickXs == {145, 265, 385, 625}
ClickYs == {160, 430}

-----------------------------------------------------------------------------
(* Timer callbacks *)

\* the cards of a matching pair marked matched
\* Mutant: only the first card of the pair is marked.
markMatched_firstOnly(cs, a, b) == [cs EXCEPT ![a].isMatched = TRUE]

markMatched(cs, a, b) ==
    [cs EXCEPT ![a].isMatched = TRUE, ![b].isMatched = TRUE]

\* Mutant: only the first card is turned back.
flipBack_firstOnly(cs, a, b) ==
    [cs EXCEPT ![a].isFlipped = FALSE]

\* the cards of a non-matching pair turned face-down
flipBack(cs, a, b) ==
    [cs EXCEPT ![a].isFlipped = FALSE, ![b].isFlipped = FALSE]

\* setTimeout(() => this.checkMatch(), 800) fires
CheckMatch ==
    /\ Due("checkMatch")
    /\ UNCHANGED <<gameState, moves, level, startTime, gameTime, difficulty,
                   isPaused, timerInterval, intervals, bestScore, now,
                   commands, failing, audio, emitter>>
    /\ LET rest == RemoveAt(timeouts, NextTimeout(timeouts))
       IN  IF Len(flippedCards) < 2
           THEN \* card1 or card2 is undefined: reading .symbol throws
                /\ threw' = TRUE
                /\ timeouts' = rest
                /\ UNCHANGED <<cards, flippedCards, matchedPairs, score>>
           ELSE LET card1 == flippedCards[1] + 1
                    card2 == flippedCards[2] + 1
                IN  IF matches(cards, card1, card2)
                    THEN /\ cards' = markMatched(cards, card1, card2)
                         /\ matchedPairs' = matchedPairs + 1
                         /\ score' = score + calculateScore(difficulty, gameTime, moves)
                         /\ \E sound \in Throws("audio"), burst \in Throws("particles") :
                              \* playSound('match'), then createMatchParticles
                              /\ threw' = (sound \/ burst)
                              /\ IF sound \/ burst
                                 THEN /\ timeouts' = rest
                                      /\ UNCHANGED flippedCards
                                 ELSE /\ timeouts' =
                                           IF matchedPairs + 1 = Len(cards) \div 2
                                           THEN setTimeout(rest, "gameComplete",
                                                           CompleteDelay)
                                           ELSE rest
                                      /\ flippedCards' = <<>>
                    ELSE /\ threw' = FALSE
                         /\ cards' = flipBack(cards, card1, card2)
                         /\ flippedCards' = <<>>
                         /\ timeouts' = rest
                         /\ UNCHANGED <<matchedPairs, score>>

\* setTimeout(() => this.gameComplete(), 500) fires
GameComplete ==
    /\ Due("gameComplete")
    /\ gameState' = "completed"
    /\ score' = score + completionBonus(gameTime)
    /\ \E storage \in Throws("storage"), victory \in Throws("audio") :
          \* saveBestScore, showGameOverScreen, then playSound('victory')
          /\ threw' = (storage \/ victory)
          /\ bestScore' = IF storage THEN bestScore
                          ELSE saveBestScore(bestScore, difficulty, score')
    /\ timeouts' = RemoveAt(timeouts, NextTimeout(timeouts))
    /\ UNCHANGED <<cards, flippedCards, matchedPairs, moves, level, startTime,
                   gameTime, difficulty, isPaused, timerInterval, intervals,
                   now, commands, failing, audio, emitter>>

\* Mutant: the callback does not look at the pause flag or at gameState.
tickTime_always(state, paused, start, time, t) == t - start

\* the value of this.gameTime after the interval callback has run at time t
tickTime(state, paused, start, time, t) ==
    IF ~paused /\ state = "playing" THEN t - start ELSE time

\* The callback of the interval timer of startTimer, as the clock is observed:
\* StepMs later than the last time.  Timeouts that are due run before the
\* clock is observed again.
Tick ==
    /\ intervals > 0
    /\ now + StepMs <= MaxNow
    /\ \A k \in 1..Len(timeouts) : timeouts[k].due > now
    /\ now' = now + StepMs
    /\ gameTime' = tickTime(gameState, isPaused, startTime, gameTime, now')
    /\ threw' = FALSE
    /\ UNCHANGED <<gameState, cards, flippedCards, matchedPairs, score, moves,
                   level, startTime, difficulty, isPaused, timerInterval,
                   intervals, timeouts, bestScore, commands, failing,
                         audio, emitter>>

-----------------------------------------------------------------------------

Next ==
    \/ StartGame
    \/ RestartGame
    \/ PlayAgain
    \/ NewGame
    \/ MainMenu
    \/ \E lvl \in DifficultyChoices : SelectDifficulty(lvl)
    \/ TogglePause
    \/ \E code \in {"Space", "Escape"} : HandleKeyPress(code)
    \/ \E x \in ClickXs, y \in ClickYs : HandleCanvasClick(x, y)
    \/ CheckMatch
    \/ GameComplete
    \/ Tick

Spec == Init /\ [][Next]_vars

-----------------------------------------------------------------------------
(* The game with a difficulty button of an unknown level *)

\* A difficulty button of an unknown level, pressed before the first game.
SelectUnknownDifficulty ==
    /\ ~timerInterval
    /\ SelectDifficulty(UnknownLevel)

NextUnknown ==
    \/ Next
    \/ SelectUnknownDifficulty

SpecUnknown == Init /\ [][NextUnknown]_vars

-----------------------------------------------------------------------------
(* A game played over a best score stored by an earlier visit *)

\* The best scores that localStorage holds for easy when the page is loaded.
StoredScores == {10, 1374, 9999}

\* One game is started; the best score of easy is missing or stored.
InitStored ==
    /\ gameState = "menu"
    /\ cards = <<>>
    /\ flippedCards = <<>>
    /\ matchedPairs = 0
    /\ score = 0
    /\ moves = 0
    /\ level = 1
    /\ startTime = 0
    /\ gameTime = 0
    /\ difficulty = "medium"
    /\ isPaused = FALSE
    /\ timerInterval = FALSE
    /\ intervals = 0
    /\ timeouts = <<>>
    /\ \E item \in {<<>>} \cup { toString(sc) : sc \in StoredScores } :
          bestScore = [d \in DifficultyNames |-> IF d = "easy" THEN item ELSE <<>>]
    /\ now = 0
    /\ threw = FALSE
    /\ commands = 1
    /\ failing = {}
    /\ audio = AudioConstructed
    /\ emitter = EmitterConstructed

SpecStored == InitStored /\ [][Next]_vars

\* The clock is observed beyond MaxNow for as long as timeouts are queued, so
\* that a callback queued at the end of the observed time still comes due.
TickPast ==
    /\ intervals > 0
    /\ now + StepMs > MaxNow
    /\ timeouts # <<>>
    /\ \A k \in 1..Len(timeouts) : timeouts[k].due > now
    /\ now' = now + StepMs
    /\ gameTime' = tickTime(gameState, isPaused, startTime, gameTime, now')
    /\ threw' = FALSE
    /\ UNCHANGED <<gameState, cards, flippedCards, matchedPairs, score, moves,
                   level, startTime, difficulty, isPaused, timerInterval,
                   intervals, timeouts, bestScore, commands, failing,
                         audio, emitter>>

NextLive == Next \/ TickPast

\* Time passes and the callbacks of the timers that are due are run.
SpecLive ==
    /\ Init
    /\ [][NextLive]_vars
    /\ WF_vars(Tick)
    /\ WF_vars(TickPast)
    /\ WF_vars(CheckMatch)
    /\ WF_vars(GameComplete)

\* The volumes that are passed to setVolume, in percent.
Volumes == (0 - 5)..105

SetVolume(volume) ==
    /\ audio' = setVolume(audio, volume)
    /\ UNCHANGED <<engine, emitter>>

SetMuted(muted) ==
    /\ audio' = setMuted(audio, muted)
    /\ UNCHANGED <<engine, emitter>>

ToggleMute ==
    /\ audio' = toggleMute(audio)
    /\ UNCHANGED <<engine, emitter>>

LoadSettings ==
    /\ audio' = loadSettings(audio)
    /\ UNCHANGED <<engine, emitter>>

\* The page is loaded again: a new AudioManager is constructed and init()
\* loads the settings from the item.
ReloadAudio ==
    /\ audio' = loadSettings([AudioConstructed EXCEPT !.item = audio.item])
    /\ UNCHANGED <<engine, emitter>>

NextAudio ==
    \/ \E volume \in Volumes : SetVolume(volume)
    \/ \E muted \in BOOLEAN : SetMuted(muted)
    \/ ToggleMute
    \/ LoadSettings
    \/ ReloadAudio

SpecAudio == Init /\ [][NextAudio]_vars

\* The callbacks that are registered; each is registered once at most.
ListenerIds == 1..3

Registered == { emitter.events[k].id : k \in 1..Len(emitter.events) }

On(id, offs) ==
    /\ id \notin Registered
    /\ emitter' = [emitter EXCEPT
                     !.events = on(@, [id |-> id, once |-> FALSE, offs |-> offs])]
    /\ UNCHANGED <<engine, audio>>

Once(id) ==
    /\ id \notin Registered
    /\ emitter' = [emitter EXCEPT
                     !.events = on(@, [id |-> id, once |-> TRUE, offs |-> 0])]
    /\ UNCHANGED <<engine, audio>>

Off(id) ==
    /\ emitter' = [emitter EXCEPT !.events = off(@, id)]
    /\ UNCHANGED <<engine, audio>>

Emit ==
    /\ emitter' = emit(emitter.events)
    /\ UNCHANGED <<engine, audio>>

NextEmitter ==
    \/ \E id \in ListenerIds, offs \in {0} \cup ListenerIds : On(id, offs)
    \/ \E id \in ListenerIds : Once(id)
    \/ \E id \in ListenerIds : Off(id)
    \/ Emit

SpecEmitter == Init /\ [][NextEmitter]_vars

\* Sessions in which one of the collaborators is failing.
Faults == {{c} : c \in Collaborators}

InitFaulty ==
    /\ Constructed
    /\ commands = MaxCommands
    /\ failing \in Faults
    /\ audio = AudioConstructed
    /\ emitter = EmitterConstructed

SpecFaulty == InitFaulty /\ [][Next]_vars

-----------------------------------------------------------------------------
(* The board generator alone *)

\* The sizes of the canvas (pixels) that resizeCanvas leaves behind:
\* at most 800 x 600, down to nothing.
CanvasWidths == {0, 60, 72, 300, 780, 800}
CanvasHeights == {0, 60, 150, 600}

\* createCards on a canvas of w x h pixels when Math.random() returns rs.
CreateCards(w, h, rs) ==
    /\ cards' = createCards(difficulty, w, h, rs)
    /\ UNCHANGED <<gameState, flippedCards, matchedPairs, score, moves, level,
                   startTime, gameTime, difficulty, isPaused, timerInterval,
                   intervals, timeouts, bestScore, now, threw, commands, failing,
                         audio, emitter>>

InitBoard ==
    /\ Constructed
    /\ commands = 0
    /\ failing = {}
    /\ audio = AudioConstructed
    /\ emitter = EmitterConstructed

\* One board is generated, on any canvas and for any outcome of the shuffle.
GenerateBoard ==
    /\ cards = <<>>
    /\ \E w \in CanvasWidths, h \in CanvasHeights,
          rs \in RandomDraws(BoardDraws, 0..(RandomGrain - 1)) :
             CreateCards(w, h, rs)

NextBoard ==
    \/ \E lvl \in DifficultyNames : SelectDifficulty(lvl)
    \/ GenerateBoard

SpecBoard == InitBoard /\ [][NextBoard]_vars

-----------------------------------------------------------------------------
(* The resolution of a match at any elapsed time and move count *)

\* The elapsed times (ms) and move counts at which a first match is resolved.
ScoreTimes ==
    {800, 900, 1000, 1900, 2000, 49900, 50000, 50900, 51000, 99900, 100000,
     101000, 149900, 150000, 151000, 199900, 200000, 201000, 3600000}
ScoreMoves ==
    {1, 2, 3, 17, 18, 19, 27, 28, 29, 37, 38, 39, 47, 48, 49, 57, 58, 59, 60}

\* The card that carries the same symbol as card a.
PairOf(cs, a) == CHOOSE b \in 1..Len(cs) : b # a /\ cs[b].symbol = cs[a].symbol

\* A game in which the first card and its pair are turned up after mv moves
\* without a match, and their resolution is due at elapsed time t; presses
\* buttons and keys may still be pressed.
MatchDueWith(diff, t, mv, presses) ==
    LET board == createCards(diff, CanvasWidth, CanvasHeight, <<>>)
        p     == PairOf(board, 1)
    IN  /\ gameState = "playing"
        /\ difficulty = diff
        /\ cards = [board EXCEPT ![1].isFlipped = TRUE, ![p].isFlipped = TRUE]
        /\ flippedCards = <<board[1].id, board[p].id>>
        /\ matchedPairs = 0
        /\ score = 0
        /\ moves = mv
        /\ level = 1
        /\ startTime = 0
        /\ gameTime = t
        /\ now = t
        /\ isPaused = FALSE
        /\ timerInterval = TRUE
        /\ intervals = 1
        /\ timeouts = <<[fn |-> "checkMatch", due |-> t]>>
        /\ bestScore = [d \in DifficultyNames |-> <<>>]
        /\ threw = FALSE
        /\ commands = presses
        /\ failing = {}
        /\ audio = AudioConstructed
        /\ emitter = EmitterConstructed

MatchDue(diff, t, mv) == MatchDueWith(diff, t, mv, 0)

InitScore == \E diff \in DifficultyNames, t \in ScoreTimes, mv \in ScoreMoves :
                 MatchDue(diff, t, mv)

NextScore == CheckMatch

SpecScore == InitScore /\ [][NextScore]_vars

\* Easy games that go on from a first match found after many moves.
LateMoves == {1, 28, 29, 30, 60}

InitLate == \E mv \in LateMoves : MatchDueWith("easy", MatchDelay, mv, 1)

SpecLate == InitLate /\ [][Next]_vars

SpecDeep == InitDeep /\ [][Next]_vars

-----------------------------------------------------------------------------
(* Vocabulary of the properties *)

\* The phase of the engine: gameState, with a game that is being played
\* split by the pause flag.
Phase ==
    CASE gameState = "menu"      -> "Menu"
      [] gameState = "completed" -> "Completed"
      [] gameState = "playing" /\ isPaused  -> "Paused"
      [] gameState = "playing" /\ ~isPaused -> "Playing"

\* The pending resolutions.
PendingResolutions == { k \in 1..Len(timeouts) : timeouts[k].fn = "checkMatch" }

\* The cards whose rectangle holds the position (x, y).
CardsAt(x, y) ==
    { n \in 1..Len(cards) :
        /\ cards[n].x <= x * SubPixels
        /\ x * SubPixels <= cards[n].x + cards[n].width
        /\ cards[n].y <= y * SubPixels
        /\ y * SubPixels <= cards[n].y + cards[n].height }

\* A selection of position (x, y) whose preconditions fail.
Rejected(x, y) ==
    \/ Phase # "Playing"
    \/ Len(flippedCards) = 2
    \/ \A n \in CardsAt(x, y) : cards[n].isFlipped \/ cards[n].isMatched

\* The two cards a resolution compares, as indices into cards.
First == flippedCards[1] + 1
Second == flippedCards[2] + 1

\* The award for a match in the words of the scoring policy.
OnMatch(elapsedTime, moveCount, timeBonusBase) ==
    LET seconds == elapsedTime \div 1000
        bonus   == IF timeBonusBase - seconds > 0 THEN timeBonusBase - seconds ELSE 0
        penalty == IF moveCount * 5 > 0 THEN moveCount * 5 ELSE 0
        total   == 100 + bonus - penalty
    IN  IF total > 10 THEN total ELSE 10

FaceDown(n) == ~cards[n].isFlipped /\ ~cards[n].isMatched

\* A step of startGame, from whichever button.
StartStep == StartGame \/ RestartGame \/ PlayAgain

-----------------------------------------------------------------------------
(* Properties *)

\* C1: in every reachable state the flip buffer holds 0, 1 or 2 cards.
C1_BufferAtMostTwo == Len(flippedCards) \in {0, 1, 2}

\* A full buffer in a game that takes clicks.
C1_Witness ==
    /\ Len(flippedCards) = 2
    /\ Phase = "Playing"
    /\ \E n \in 1..Len(cards) : FaceDown(n)

\* C2: at most one resolution (a scheduled checkMatch) is pending at any time.
C2_OneResolutionPending == Cardinality(PendingResolutions) <= 1

\* C3: a card selection whose preconditions fail (phase not Playing, buffer
\* holding 2 cards, card revealed or matched, no card hit) changes nothing.
C3_RejectedSelectionIsNoOp ==
    [][\/ UNCHANGED <<gameState, isPaused, flippedCards, gameTime, moves,
                      score, matchedPairs, level, startTime, difficulty,
                      timeouts, bestScore, cards>>
       \/ \A x \in ClickXs, y \in ClickYs :
             ~(Rejected(x, y) /\ HandleCanvasClick(x, y))]_vars

\* A paused game with a full buffer, a matched pair and face-down cards:
\* a click is rejected there whatever it hits.
C3_Witness ==
    /\ Phase = "Paused"
    /\ Len(flippedCards) = 2
    /\ matchedPairs >= 1
    /\ \E n \in 1..Len(cards) : FaceDown(n)

\* C4: a resolution of two cards with identical symbols marks both matched,
\* adds 1 to matchedPairs, adds the onMatch award for the current elapsed
\* time, move count and difficulty to score, leaves moves alone and empties
\* the buffer.
C4_MatchResolution ==
    [][(CheckMatch /\ Len(flippedCards) = 2
          /\ cards[First].symbol = cards[Second].symbol) =>
          /\ cards'[First].isMatched /\ cards'[Second].isMatched
          /\ matchedPairs' = matchedPairs + 1
          /\ score' = score + OnMatch(gameTime, moves, difficulties[difficulty].timeBonus)
          /\ moves' = moves
          /\ flippedCards' = <<>>]_vars

\* The first pair of a game was turned up and resolved as a match.
C4_Witness ==
    /\ matchedPairs = 1
    /\ moves = 1
    /\ flippedCards = <<>>
    /\ score = OnMatch(gameTime, 1, difficulties[difficulty].timeBonus)
    /\ Cardinality({ n \in 1..Len(cards) : cards[n].isMatched }) = 2
    /\ ~threw

\* C5: the second flip of two cards with different symbols adds 1 to moves;
\* their resolution turns both face-down and leaves them unmatched, leaves
\* score, matchedPairs, moves and every other card alone and empties the buffer.
C5_MismatchResolution ==
    [][/\ (Len(flippedCards) = 1 /\ Len(flippedCards') = 2) => moves' = moves + 1
       /\ (CheckMatch /\ Len(flippedCards) = 2
             /\ cards[First].symbol # cards[Second].symbol) =>
             /\ ~cards'[First].isFlipped /\ ~cards'[First].isMatched
             /\ ~cards'[Second].isFlipped /\ ~cards'[Second].isMatched
             /\ \A n \in 1..Len(cards) :
                   n \notin {First, Second} => cards'[n] = cards[n]
             /\ Len(cards') = Len(cards)
             /\ score' = score
             /\ matchedPairs' = matchedPairs
             /\ moves' = moves
             /\ flippedCards' = <<>>]_vars

\* The first pair of a game was turned up and did not match.
C5_Witness ==
    /\ gameState = "playing"
    /\ moves = 1
    /\ matchedPairs = 0
    /\ score = 0
    /\ flippedCards = <<>>
    /\ timeouts = <<>>
    /\ \A n \in 1..Len(cards) : FaceDown(n)
    /\ ~threw

\* C6: the phase changes only Menu -> Playing, Playing <-> Paused,
\* Playing -> Completed, Completed -> Playing or to Menu, and a timer never
\* takes the engine out of Menu or Completed.
C6_PhaseChanges ==
    [][/\ \/ Phase' = Phase
          \/ Phase = "Menu" /\ Phase' = "Playing"
          \/ Phase = "Playing" /\ Phase' = "Paused"
          \/ Phase = "Paused" /\ Phase' = "Playing"
          \/ Phase = "Playing" /\ Phase' = "Completed"
          \/ Phase = "Completed" /\ Phase' = "Playing"
          \/ Phase' = "Menu"
       /\ (Phase \in {"Menu", "Completed"} /\ Phase' # Phase) =>
             ~(CheckMatch \/ GameComplete \/ Tick)]_vars

\* C7: right after startGame, from whichever state, score, moves and
\* matchedPairs are 0, the buffer is empty, the board is a fresh one with
\* every card face-down and unmatched, and the phase is Playing.
C7_StartResetsSession ==
    [][StartStep =>
          /\ score' = 0 /\ moves' = 0 /\ matchedPairs' = 0
          /\ flippedCards' = <<>>
          /\ Len(cards') = difficulties[difficulty].rows * difficulties[difficulty].cols
          /\ \A n \in 1..Len(cards') : FaceDown(n)'
          /\ Phase' = "Playing"]_vars

\* C8: right after startGame the engine is Playing and not Paused: it takes
\* a click on a face-down card and its clock runs.
C8_StartIsNotPaused ==
    [][StartStep =>
          /\ clickAccepted(gameState', isPaused')
          /\ tickTime(gameState', isPaused', startTime', gameTime', now' + StepMs)
                = now' + StepMs - startTime']_vars

\* C9: two calls of togglePause in a row in a game bring the pause flag back,
\* and a call changes neither gameState, score, moves, matchedPairs, level,
\* the buffer nor the cards.
C9_TogglePauseTwice ==
    /\ [](gameState = "playing" =>
            togglePause(gameState, togglePause(gameState, isPaused)) = isPaused)
    /\ [][TogglePause =>
            UNCHANGED <<gameState, score, moves, matchedPairs, level,
                        flippedCards, cards>>]_vars

\* A game paused by togglePause, with a card turned up and a pair matched.
C9_Witness ==
    /\ Phase = "Paused"
    /\ Len(flippedCards) = 1
    /\ matchedPairs >= 1

\* C10: time spent paused never enters gameTime: over a step of the clock
\* gameTime grows by at most the length of the step.
C10_PausedTimeNotCounted ==
    [][now' # now => gameTime' - gameTime <= now' - now]_vars

\* C11: togglePause called in Menu or Completed (by a button or by Space)
\* raises no error and changes no field of the engine.
C11_TogglePauseIgnoredOutsideGame ==
    [][((TogglePause \/ HandleKeyPress("Space")) /\ gameState # "playing") =>
          /\ ~threw'
          /\ UNCHANGED <<gameState, cards, flippedCards, matchedPairs, score,
                         moves, level, startTime, gameTime, difficulty,
                         isPaused, timerInterval, intervals, timeouts,
                         bestScore, now>>]_vars

\* A completed game on which a button or key was pressed afterwards or
\* before, with the pause flag down.
C11_Witness ==
    /\ gameState = "completed"
    /\ ~isPaused
    /\ commands = 0
    /\ ToNumber(bestScore[difficulty]) = score

\* A return to the menu: new-game-btn, main-menu-btn, or Escape in a game.
ReturnToMenu ==
    \/ NewGame
    \/ MainMenu
    \/ HandleKeyPress("Escape") /\ gameState = "playing"

\* C12: every return to the menu sets level to 1 and the phase to Menu.
C12_ReturnToMenuResetsLevel ==
    [][ReturnToMenu => (level' = 1 /\ Phase' = "Menu")]_vars

\* C13: playAgain in Completed adds 1 to level and starts a game of the same
\* difficulty that is in Playing with a reset session; restartGame, a card
\* selection, togglePause and the timers leave level alone.
C13_PlayAgainFromCompleted ==
    [][/\ (PlayAgain /\ gameState = "completed") =>
             /\ level' = level + 1
             /\ difficulty' = difficulty
             /\ Len(cards') = difficulties[difficulty].rows * difficulties[difficulty].cols
             /\ score' = 0 /\ moves' = 0 /\ matchedPairs' = 0
             /\ flippedCards' = <<>>
             /\ \A n \in 1..Len(cards') :
                   ~cards'[n].isFlipped /\ ~cards'[n].isMatched
             /\ Phase' = "Playing"
       /\ (\/ RestartGame
           \/ TogglePause
           \/ HandleKeyPress("Space")
           \/ \E x \in ClickXs, y \in ClickYs : HandleCanvasClick(x, y)
           \/ CheckMatch
           \/ GameComplete
           \/ Tick) => level' = level]_vars

\* C14: playAgain outside Completed changes neither level, the board, score,
\* moves nor matchedPairs.
C14_PlayAgainOutsideCompleted ==
    [][(PlayAgain /\ gameState # "completed") =>
          UNCHANGED <<level, cards, score, moves, matchedPairs>>]_vars

\* timeBonus is 50, 100, 150, 200 for easy, medium, hard, expert.
TimeBonusBase == [easy |-> 50, medium |-> 100, hard |-> 150, expert |-> 200]

\* C15: for every elapsed time, move count and difficulty the points a match
\* adds are max(10, 100 + max(0, timeBonus - floor(elapsedTime/1000)) -
\* max(0, moves*5)), with the move count at resolution time.
C15_PointsForMatch ==
    [][(CheckMatch /\ Len(flippedCards) = 2
          /\ cards[First].symbol = cards[Second].symbol) =>
          score' - score = OnMatch(gameTime, moves, TimeBonusBase[difficulty])]_vars

\* A match on expert resolved after so many moves that the floor of 10 applies.
C15_Witness ==
    /\ difficulty = "expert"
    /\ matchedPairs = 1
    /\ moves >= 58
    /\ gameTime <= 1000
    /\ score = 10

\* C16: the completion bonus is added to score only by the completion
\* callback and only in a game in which every pair is matched.
C16_BonusOnlyAtCompletion ==
    [][GameComplete =>
          /\ matchedPairs * 2 = Len(cards)
          /\ score' = score + Max(0, 1000 - (gameTime \div 1000) * 10)]_vars

\* A board for a difficulty: rows*cols cards with ids 0..rows*cols-1, on
\* which exactly the first rows*cols/2 symbols of the pool appear, each on
\* exactly two cards.
BoardFor(cs, diff) ==
    LET total   == difficulties[diff].rows * difficulties[diff].cols
        symbols == { cs[n].symbol : n \in 1..Len(cs) }
    IN  /\ Len(cs) = total
        /\ \A n \in 1..total : cs[n].id = n - 1
        /\ Cardinality(symbols) * 2 = total
        /\ symbols = { cardSymbols[k] : k \in 1..(total \div 2) }
        /\ \A sym \in symbols :
              Cardinality({ n \in 1..total : cs[n].symbol = sym }) = 2

\* C17: for each difficulty and each outcome of the shuffle, createCards
\* yields rows*cols cards with ids 0..rows*cols-1 that carry the first
\* rows*cols/2 symbols of the pool, each on exactly two cards.
C17_BoardHoldsEachSymbolTwice ==
    [][cards' # cards => BoardFor(cards', difficulty)]_vars

\* An expert board whose last card was moved by the shuffle.
C17_Witness ==
    /\ difficulty = "expert"
    /\ Len(cards) = 24
    /\ cards[24].symbol \notin {cards[1].symbol, cardSymbols[12]}
    /\ cards[12].symbol # cardSymbols[12]

Least(a, b) == IF a <= b THEN a ELSE b

\* The rectangles of two cards, as the hit test of handleCardClick reads
\* them, have a point in common.
Overlap(a, b) ==
    /\ Max(a.x, b.x) <= Least(a.x + a.width, b.x + b.width)
    /\ Max(a.y, b.y) <= Least(a.y + a.height, b.y + b.height)

\* C18: no two cards of a board have overlapping rectangles, whatever the
\* difficulty and the size of the canvas.
C18_NoOverlap ==
    \A m, n \in 1..Len(cards) : m # n => ~Overlap(cards[m], cards[n])

\* An expert board on the canvas of 800 pixels, where a cell is 123 1/3
\* pixels wide.
C18_Witness ==
    /\ Len(cards) = 24
    /\ cards[2].x - cards[1].x = 1480
    /\ cards[1].width = 1360
    /\ cards[1].height > 0

\* C19: startGame in Menu on a difficulty for which no board can be
\* generated fails with an error, creates no board and leaves the engine
\* in Menu.
C19_FailedStartStaysInMenu ==
    [][(StartStep /\ gameState = "menu" /\ difficulty \notin DifficultyNames) =>
          /\ threw'
          /\ cards' = cards
          /\ gameState' = "menu"]_vars

\* C20: at most one interval timer of startTimer is live at any time.
C20_OneTickTimer == intervals <= 1

\* A game started while the interval timer of an earlier game was running
\* (the clock moves only while a timer is live).
C20_Witness ==
    /\ gameState = "playing"
    /\ startTime = now /\ now > 0
    /\ timerInterval
    /\ intervals = 1

\* C21: in Menu and in Completed no interval timer of startTimer is live.
C21_NoTickTimerOutsideGame ==
    Phase \in {"Menu", "Completed"} => intervals = 0

\* C22: gameTime changes only on a step taken while the phase is Playing.
C22_TimeAdvancesOnlyWhilePlaying ==
    [][gameTime' # gameTime => Phase = "Playing"]_vars

\* The clock has moved on over a paused game whose gameTime stood still.
C22_Witness ==
    /\ Phase = "Paused"
    /\ now - startTime >= gameTime + StepMs

\* The best score of a difficulty as it is read back from the items best.
Stored(best, diff) == ToNumber(best[diff])

\* C23: the stored best score of a difficulty never goes down; a completion
\* replaces it by the final score if that is greater, leaves it alone if
\* not, and touches no other difficulty; what is read back is what was stored.
C23_BestScoreMonotone ==
    [][/\ \A d \in DifficultyNames :
             Stored(bestScore', d) >= Stored(bestScore, d)
       /\ GameComplete =>
             /\ Stored(bestScore', difficulty) =
                   IF score' > Stored(bestScore, difficulty)
                   THEN score' ELSE Stored(bestScore, difficulty)
             /\ \A d \in DifficultyNames \ {difficulty} :
                   bestScore'[d] = bestScore[d]]_vars

\* A game completed with a final score below the best score stored before.
C23_Witness ==
    /\ gameState = "completed"
    /\ matchedPairs = 3
    /\ score > 1000
    /\ score < Stored(bestScore, "easy")

\* The timeouts that will run fn.
Scheduled(ts, fn) == { k \in 1..Len(ts) : ts[k].fn = fn }

\* A click is accepted and brings the flip buffer to length n.
AcceptedSelection(n) ==
    /\ \E x \in ClickXs, y \in ClickYs : HandleCanvasClick(x, y)
    /\ Len(flippedCards') = Len(flippedCards) + 1
    /\ Len(flippedCards') = n

\* C24: when localStorage is failing, a completion still ends in Completed
\* with the completion bonus in score, and runs to its end (the game-over
\* screen is shown and the victory sound is played) without an error.
C24_StorageFailureDoesNotAbortCompletion ==
    [][GameComplete /\ failing = {"storage"} =>
          /\ gameState' = "completed"
          /\ score' = score + completionBonus(gameTime)
          /\ ~threw']_vars

\* C25: when the audio manager or the particle system is failing, an
\* accepted selection of the second card still increments moves and
\* schedules the resolution, and a resolution that finds a match still
\* empties the flip buffer and still schedules the completion if the
\* matched pair was the last one.
C25_NotificationFailureIsIsolated ==
    [][/\ AcceptedSelection(2) =>
             /\ moves' = moves + 1
             /\ Cardinality(Scheduled(timeouts', "checkMatch")) =
                   Cardinality(Scheduled(timeouts, "checkMatch")) + 1
       /\ CheckMatch /\ matchedPairs' = matchedPairs + 1 =>
             /\ flippedCards' = <<>>
             /\ matchedPairs' = Len(cards) \div 2 =>
                   Scheduled(timeouts', "gameComplete") # {}]_vars

\* C26: an easy game completed with all 3 pairs matched in 3 moves and at
\* most 5 seconds on the game clock ends with moves = 3, matchedPairs = 3,
\* phase Completed and a final score above 3 * 10 plus the completion bonus.
C26_ScenarioEasyPerfectGame ==
    [][/\ GameComplete
       /\ difficulty = "easy" /\ matchedPairs = 3 /\ moves = 3
       /\ gameTime <= 5000
       => /\ Phase' = "Completed"
          /\ moves' = 3
          /\ matchedPairs' = 3
          /\ score' > 3 * 10 + completionBonus(gameTime)]_vars

\* An easy game completed in three moves within five seconds.
C26_Witness ==
    /\ Phase = "Completed"
    /\ difficulty = "easy"
    /\ moves = 3 /\ matchedPairs = 3
    /\ gameTime <= 5000 /\ gameTime >= 3 * MatchDelay
    /\ \A n \in 1..Len(cards) : cards[n].isMatched

\* C27: whenever the flip buffer holds two cards it is eventually empty
\* again, given that time passes and that timer callbacks are run when due.
C27_BufferEventuallyEmpty ==
    (Len(flippedCards) = 2) ~> (flippedCards = <<>>)

\* A pair that did not match was turned back while the game was paused: the
\* game clock still shows less than the delay of the resolution.
C27_Witness ==
    /\ gameState = "playing" /\ isPaused
    /\ moves = 1 /\ matchedPairs = 0
    /\ flippedCards = <<>> /\ timeouts = <<>>
    /\ gameTime < MatchDelay
    /\ \A n \in 1..Len(cards) : ~cards[n].isFlipped

\* C28: an accepted selection that fills the flip buffer adds exactly 1 to
\* moves and queues exactly one resolution; an accepted selection of a
\* first card, a resolution, a pause toggle and a tick leave moves alone.
C28_MovesCountFilledBuffers ==
    [][/\ AcceptedSelection(2) =>
             /\ moves' = moves + 1
             /\ Len(timeouts') = Len(timeouts) + 1
             /\ Cardinality(Scheduled(timeouts', "checkMatch")) =
                   Cardinality(Scheduled(timeouts, "checkMatch")) + 1
       /\ AcceptedSelection(1) \/ CheckMatch \/ TogglePause \/ Tick =>
             moves' = moves]_vars

\* The first card of the third move is face up: two moves were counted and
\* resolved, and the selection of this card was not counted.
C28_Witness ==
    /\ gameState = "playing" /\ ~isPaused
    /\ moves = 2
    /\ Len(flippedCards) = 1
    /\ timeouts = <<>>

\* C29: score is never negative and never below 10 points per matched
\* pair; it goes down on no step but the start of a game, and every match
\* adds at least 10 points.
C29_ScoreAtLeastTenPerPair ==
    /\ [](score >= 0 /\ score >= 10 * matchedPairs)
    /\ [][/\ score' >= score \/ StartStep
          /\ matchedPairs' = matchedPairs + 1 => score' >= score + 10]_vars

\* A game completed after matches that were worth exactly the floor.
C29_Witness ==
    /\ gameState = "completed"
    /\ matchedPairs = 3
    /\ moves >= 60
    /\ score = 3 * 10 + completionBonus(gameTime)

\* C30: in the state right after a game is started (by startGame,
\* restartGame or playAgain) gameTime is 0.
C30_StartResetsGameTime ==
    [][StartStep => gameTime' = 0]_vars

\* C31: in Completed all pairs of the current board are matched:
\* matchedPairs is the number of pairs and every card is matched.
C31_CompletedBoardIsMatched ==
    Phase = "Completed" =>
        /\ matchedPairs * 2 = Len(cards)
        /\ \A n \in 1..Len(cards) : cards[n].isMatched

\* C32: every run of checkMatch finds exactly two cards in the flip buffer
\* and ends without an error.
C32_ResolutionFindsItsPair ==
    [][CheckMatch => Len(flippedCards) = 2 /\ ~threw']_vars

\* The cards in the flip buffer, as indices into cards.
Buffered == { flippedCards[k] + 1 : k \in 1..Len(flippedCards) }

\* The cards that are face up and not matched.
Revealed == { n \in 1..Len(cards) : cards[n].isFlipped /\ ~cards[n].isMatched }

\* C33: the flip buffer holds pairwise distinct cards of the current board,
\* and the cards that are face up and not matched are exactly the cards in
\* the flip buffer.
C33_BufferIsTheRevealedCards ==
    /\ Cardinality(Buffered) = Len(flippedCards)
    /\ Buffered \subseteq 1..Len(cards)
    /\ Revealed = Buffered

\* A game in which one pair is matched and two more cards are face up.
C33_Witness ==
    /\ Len(flippedCards) = 2
    /\ matchedPairs = 1
    /\ Cardinality({ n \in 1..Len(cards) : cards[n].isFlipped }) = 4

\* The cards that are matched.
Matched == { n \in 1..Len(cards) : cards[n].isMatched }

\* C34: the number of matched cards is 2 * matchedPairs, matchedPairs is at
\* most the number of pairs of the board and at most moves, a matched card
\* is face up, and a matched card stays matched until a game is started.
C34_MatchedPairsCountsMatchedCards ==
    /\ [](/\ Cardinality(Matched) = 2 * matchedPairs
          /\ 2 * matchedPairs <= Len(cards)
          /\ matchedPairs <= moves
          /\ \A n \in Matched : cards[n].isFlipped)
    /\ [][StartStep \/ \A n \in Matched : cards'[n].isMatched]_vars

\* Two pairs are matched after three moves, one of which was a miss.
C34_Witness ==
    /\ gameState = "playing"
    /\ matchedPairs = 2 /\ moves = 3
    /\ Cardinality(Matched) = 4
    /\ flippedCards = <<>>

\* C35: a timer callback (checkMatch or gameComplete) that runs while the
\* phase is not Playing changes none of score, moves, matchedPairs and the
\* flags of the cards.
C35_CallbacksOnlyActWhilePlaying ==
    [][(CheckMatch \/ GameComplete) /\ Phase # "Playing" =>
          UNCHANGED <<score, moves, matchedPairs, cards>>]_vars

\* Every pair of the board is matched.
AllMatched == Len(cards) > 0 /\ matchedPairs * 2 = Len(cards)

\* C36: once every pair of the board is matched the phase eventually
\* becomes Completed, unless the player returns to the menu or starts a
\* game (which resets matchedPairs) before that, given that time passes and
\* that timer callbacks are run when due.
C36_AllMatchedLeadsToCompleted ==
    AllMatched ~> (Phase = "Completed" \/ Phase = "Menu" \/ ~AllMatched)

\* The completion came while the game was paused after the last match.
C36_Witness ==
    /\ gameState = "completed" /\ isPaused
    /\ AllMatched
    /\ timeouts = <<>>

\* The difficulty with which the current board was generated.
BoardDifficulty ==
    CHOOSE d \in DifficultyNames :
        Len(cards) = difficulties[d].rows * difficulties[d].cols

\* C37: a match is scored with the time bonus of the difficulty the board
\* was generated with, and a completion stores the best score under the
\* key of that difficulty and under no other.
C37_DifficultyOfTheBoardIsUsed ==
    [][/\ CheckMatch /\ matchedPairs' = matchedPairs + 1 =>
             score' - score =
                OnMatch(gameTime, moves, TimeBonusBase[BoardDifficulty])
       /\ GameComplete =>
             \A d \in DifficultyNames \ {BoardDifficulty} :
                bestScore'[d] = bestScore[d]]_vars

\* C38: loading the settings gives back what was saved: the volume and
\* the muted flag that were set last are the ones after loadSettings, in
\* the same AudioManager and in one constructed later.
C38_SettingsRoundTrip ==
    [][(LoadSettings \/ ReloadAudio) /\ audio.item = Stringify(audio.masterVolume, audio.isMuted) =>
          /\ audio'.masterVolume = audio.masterVolume
          /\ audio'.isMuted = audio.isMuted]_vars

\* The ids of the listeners in list, in the order of registration.
IdsOf(list) == [k \in 1..Len(list) |-> list[k].id]

\* C39: emit calls every listener that is registered when it starts exactly
\* once and in the order of registration, and a listener registered with
\* once is not registered any more after the emit that called it.
C39_EmitCallsEveryListener ==
    [][Emit =>
          /\ emitter'.called = IdsOf(emitter.events)
          /\ \A k \in 1..Len(emitter'.events) :
                ~emitter'.events[k].once]_vars

====
